---- MODULE Spec2Model ----
(***************************************************************************)
(* Decision-and-build engine of the iPod RedBook audio converter:          *)
(*   - planner/defaults.py    compute_target_parameters                    *)
(*   - planner/resolver.py    resolve_track_jobs                           *)
(*   - cache/manager.py       CacheManager.lookup / store                  *)
(*   - converter/transcoder.py convert_track, _handle_passthrough          *)
(*   - converter/pipeline.py  ConversionPipeline.execute, _run_parallel    *)
(*                                                                         *)
(* Six specifications share the variables:                                 *)
(*   Spec          the conversion pipeline with its worker pool            *)
(*   SpecFair      one call of execute under fair scheduling               *)
(*   SpecResolve   the resolver's pure functions applied to bounded facts  *)
(*   SpecCache     the cached / pending partition, dry run and lookup over *)
(*                 bounded cache contents, output files and re-plans       *)
(*   SpecPlan      resolve_build_plan over bounded albums and decisions    *)
(*   SpecTable     the CacheManager calls that write the cache table       *)
(***************************************************************************)
EXTENDS Integers, Sequences, FiniteSets, TLC

VARIABLES
    \* ---- resolver (SpecResolve) ----
    track,        \* the source facts of one track: [sample_rate, bit_depth]
    action,       \* the resolved action of the track's album
    rjob,         \* the TrackJob resolve_track_jobs emits for it, or NoJob
    albums,       \* the scanned albums handed to resolve_build_plan
    decisions,    \* the decision row of each album
    bplan,        \* the BuildPlan resolve_build_plan returned, or NoPlan
    \* ---- pipeline (Spec) ----
    plan,         \* plan.jobs: JobIds -> TrackJob
    config,       \* ApplyConfig: [threads, fail_fast, force]
    cache,        \* the cache table: source_path -> row or NoRow
    tmpFile,      \* the file at the temporary path of each output path
    outFile,      \* the file at each output path
    phase,        \* where execute is: "idle", "collecting", "draining"
    runs,         \* number of execute calls started so far
    status,       \* per job: its future / worker position in this run
    result,       \* per job: the TrackResult its worker returned
    collected,    \* per job: as_completed has yielded its future
    results,      \* the list execute returns
    stats,        \* PipelineStats
    submitted,    \* per job: executor.submit calls in this run
    attempts,     \* per job: times a worker took it up in this run
    errorEvents,  \* per job: JobErrorEvent emitted in this run
    steps,        \* per job: the steps its worker completed in this run
    stored,       \* per job: cache.store wrote its row in this run
    hadRow,       \* per job: the cache held a row for its source at run start
    prev,         \* per job: how the previous run ended for it
    \* ---- cache queries (SpecCache) ----
    dry,          \* the counts the last execute(dry_run=True) reported
    probe,        \* the last CacheManager.lookup call: job, row and answer
    \* ---- cache table (SpecTable) ----
    table,        \* the rows of the SQLite table "cache"
    present,      \* the output paths at which a file exists
    call          \* the last CacheManager call that may write: its arguments

rvars == <<track, action, rjob, albums, decisions, bplan>>
pvars == <<plan, config, cache, tmpFile, outFile, phase, runs, status, result,
           collected, results, stats, submitted, attempts, errorEvents, steps,
           stored, hadRow, prev>>
qvars == <<dry, probe>>
tvars == <<table, present, call>>
vars == <<rvars, pvars, qvars, tvars>>

-----------------------------------------------------------------------------
(* Python's None, and the truth value Python gives an optional integer.    *)
None == -1
Truthy(x) == x # None /\ x # 0

Min(a, b) == IF a <= b THEN a ELSE b

-----------------------------------------------------------------------------
(* models/plan.py: Action                                                  *)
Actions == {"ALAC_PRESERVE", "ALAC_16_44", "AAC", "PASS_MP3", "SKIP"}

(* planner/defaults.py: the ceilings hardcoded in compute_target_parameters *)
max_sample_rate == 44100
max_bit_depth == 16

(* A plausible slip: ALAC_16_44 "forces 44.1/16" without the min().        *)
compute_target_parameters_forced(source_sample_rate, source_bit_depth, act) ==
    LET sr0 == IF source_sample_rate > max_sample_rate
               THEN max_sample_rate ELSE source_sample_rate
    IN  IF act = "ALAC_16_44"
        THEN [target_sample_rate |-> max_sample_rate,
              target_bit_depth |-> max_bit_depth,
              apply_dither |-> Truthy(source_bit_depth)
                               /\ source_bit_depth > max_bit_depth]
        ELSE [target_sample_rate |-> sr0,
              target_bit_depth |-> source_bit_depth,
              apply_dither |-> FALSE]

(* A plausible slip: dither whenever anything is reduced, the sample rate  *)
(* included.                                                               *)
compute_target_parameters_dither_on_resample(source_sample_rate, source_bit_depth, act) ==
    LET sr0 == Min(source_sample_rate, max_sample_rate)
        reduce == Truthy(source_bit_depth) /\ source_bit_depth > max_bit_depth
        bd1 == IF reduce THEN max_bit_depth
               ELSE IF source_bit_depth = None THEN 16
               ELSE source_bit_depth
    IN  IF act \in {"ALAC_PRESERVE", "ALAC_16_44"}
        THEN [target_sample_rate |-> sr0,
              target_bit_depth |-> bd1,
              apply_dither |-> reduce \/ source_sample_rate > max_sample_rate]
        ELSE IF act = "AAC"
        THEN [target_sample_rate |-> sr0,
              target_bit_depth |-> None,
              apply_dither |-> FALSE]
        ELSE [target_sample_rate |-> IF act = "PASS_MP3" THEN source_sample_rate
                                     ELSE sr0,
              target_bit_depth |-> source_bit_depth,
              apply_dither |-> FALSE]

(* planner/defaults.py: compute_target_parameters                          *)
compute_target_parameters(source_sample_rate, source_bit_depth, act) ==
    LET \* lines 72-82
        sr0 == IF source_sample_rate > max_sample_rate
               THEN max_sample_rate ELSE source_sample_rate
        reduce == Truthy(source_bit_depth) /\ source_bit_depth > max_bit_depth
        \* lines 87-92
        bd1 == IF reduce THEN max_bit_depth
               ELSE IF source_bit_depth = None THEN 16
               ELSE source_bit_depth
    IN  IF act \in {"ALAC_PRESERVE", "ALAC_16_44"}
        THEN IF act = "ALAC_16_44"
             THEN \* lines 96-101
                  [target_sample_rate |-> Min(source_sample_rate, max_sample_rate),
                   target_bit_depth |-> IF Truthy(source_bit_depth)
                                        THEN Min(source_bit_depth, max_bit_depth)
                                        ELSE 16,
                   apply_dither |-> reduce]
             ELSE [target_sample_rate |-> sr0,
                   target_bit_depth |-> bd1,
                   apply_dither |-> reduce]
        ELSE IF act = "AAC"
        THEN \* lines 103-107
             [target_sample_rate |-> Min(source_sample_rate, max_sample_rate),
              target_bit_depth |-> None,
              apply_dither |-> FALSE]
        ELSE IF act = "PASS_MP3"
        THEN \* lines 109-112
             [target_sample_rate |-> source_sample_rate,
              target_bit_depth |-> source_bit_depth,
              apply_dither |-> FALSE]
        ELSE \* any other action (SKIP): only the sample-rate cap applied
             [target_sample_rate |-> sr0,
              target_bit_depth |-> source_bit_depth,
              apply_dither |-> FALSE]

(* planner/resolver.py: resolve_track_jobs, the target codec of an action  *)
target_codec(act) ==
    IF act \in {"ALAC_PRESERVE", "ALAC_16_44"} THEN "alac"
    ELSE IF act = "AAC" THEN "aac"
    ELSE IF act = "PASS_MP3" THEN "copy"
    ELSE "none"

NoJob == [action |-> "none"]

(* planner/resolver.py: resolve_track_jobs, for one track of the album     *)
resolve_track_job(t, act) ==
    IF act = "SKIP" \/ target_codec(act) = "none"
    THEN NoJob
    ELSE LET params == compute_target_parameters(t.sample_rate, t.bit_depth, act)
         IN  [action |-> act,
              target_codec |-> target_codec(act),
              source_sample_rate |-> t.sample_rate,
              source_bit_depth |-> t.bit_depth,
              target_sample_rate |-> params.target_sample_rate,
              target_bit_depth |-> params.target_bit_depth,
              apply_dither |-> params.apply_dither]

(* converter/ffmpeg.py: build_alac_command, whether the encoder command    *)
(* carries the dither filter option                                        *)
needs_dither(job) ==
    LET source_bd == IF Truthy(job.source_bit_depth) THEN job.source_bit_depth ELSE 16
        target_bd == IF Truthy(job.target_bit_depth) THEN job.target_bit_depth ELSE 16
    IN  source_bd > target_bd

-----------------------------------------------------------------------------
(* Bounds of the pipeline model.                                           *)
NumJobs == 2          \* jobs of the plan
MaxThreads == 2       \* largest config.threads tried
MaxRuns == 3          \* execute calls in one behaviour

JobIds == 1..NumJobs
Paths == 1..NumJobs   \* output paths the plan's jobs may resolve to

(* The pipeline's plans encode (ALAC) or copy (PASS_MP3).                  *)
PlanActions == {"ALAC_PRESERVE", "PASS_MP3"}

(* models/config.py: Config.tool_version "0.1.0"                           *)
tool_version == 10

(* A slip: the target bit depth left out of the digest.                    *)
compute_settings_hash_without_bit_depth(mtime, size_bytes, act, aac_bitrate, target_sr, target_bd, version) ==
    <<mtime, size_bytes, act,
      IF Truthy(aac_bitrate) THEN aac_bitrate ELSE 0,
      target_sr,
      version>>

(* planner/resolver.py: compute_settings_hash.  The digest is modelled as  *)
(* the tuple of its components (no two component lists collide).           *)
compute_settings_hash(mtime, size_bytes, act, aac_bitrate, target_sr, target_bd, version) ==
    <<mtime, size_bytes, act,
      IF Truthy(aac_bitrate) THEN aac_bitrate ELSE 0,
      target_sr,
      IF Truthy(target_bd) THEN target_bd ELSE 0,
      version>>

(* The facts of the source file of job j: CD-quality, distinct paths.      *)
SourceTrack(j) ==
    [path |-> j, sample_rate |-> 44100,
     bit_depth |-> 16, mtime |-> 1000 * j, size_bytes |-> 100 * j]

(* planner/resolver.py: resolve_track_jobs, the TrackJob of source j that  *)
(* resolves to output path o under action act.                             *)
TrackJob(j, o, act) ==
    LET t == SourceTrack(j)
        params == compute_target_parameters(t.sample_rate, t.bit_depth, act)
    IN  [source_path |-> t.path,
         output_path |-> o,
         action |-> act,
         target_codec |-> target_codec(act),
         target_sample_rate |-> params.target_sample_rate,
         target_bit_depth |-> params.target_bit_depth,
         source_mtime |-> t.mtime,
         source_size |-> t.size_bytes,
         settings_hash |-> compute_settings_hash(t.mtime, t.size_bytes, act, None,
                               params.target_sample_rate, params.target_bit_depth,
                               tool_version)]

(* planner/resolver.py: resolve_track_jobs, the TrackJob of a track with   *)
(* facts t that resolves to output path o under action act and the         *)
(* resolved bit rate aac_bitrate (None unless the action is AAC).          *)
resolve_job(t, o, act, aac_bitrate) ==
    LET params == compute_target_parameters(t.sample_rate, t.bit_depth, act)
    IN  [source_path |-> t.path,
         output_path |-> o,
         action |-> act,
         target_codec |-> target_codec(act),
         target_sample_rate |-> params.target_sample_rate,
         target_bit_depth |-> params.target_bit_depth,
         aac_bitrate_kbps |-> aac_bitrate,
         source_mtime |-> t.mtime,
         source_size |-> t.size_bytes,
         settings_hash |-> compute_settings_hash(t.mtime, t.size_bytes, act,
                               aac_bitrate, params.target_sample_rate,
                               params.target_bit_depth, tool_version)]

-----------------------------------------------------------------------------
(* The file system: a file is absent, or exists with the set of encoder /  *)
(* copy processes still writing it (writers), whether a writer died before *)
(* finishing it (torn) and whether it has zero size (empty).               *)
Absent == [ex |-> FALSE, writers |-> {}, torn |-> FALSE, empty |-> FALSE]

IsPartial(f) == f.ex /\ (f.writers # {} \/ f.torn)
IsComplete(f) == f.ex /\ f.writers = {} /\ ~f.torn

(* open(path, O_CREAT | O_TRUNC) by job j (ffmpeg -y, shutil.copy2)        *)
Truncate(f, j) ==
    [ex |-> TRUE,
     writers |-> (IF f.ex THEN f.writers ELSE {}) \cup {j},
     torn |-> FALSE,
     empty |-> TRUE]

(* writer j closes its file: finished (tear = FALSE) or died (tear = TRUE) *)
CloseWriter(f, j, tear, z) ==
    IF f.ex /\ j \in f.writers
    THEN [f EXCEPT !.writers = @ \ {j},
                   !.torn = @ \/ tear,
                   !.empty = IF tear THEN @ /\ z ELSE FALSE]
    ELSE f

-----------------------------------------------------------------------------
(* cache/manager.py                                                        *)
NoRow == [output_path |-> 0]

(* manager.py:112, abs(source_mtime - job.source_mtime) > 0.001, in ms     *)
MtimeTolerance == 1

Abs(x) == IF x < 0 THEN -x ELSE x

(* A slip: the output-path test of lookup left out.                        *)
lookup_ignoring_output_path(c, job) ==
    LET row == c[job.source_path]
    IN  /\ row # NoRow
        /\ ~(Abs(row.source_mtime - job.source_mtime) > MtimeTolerance)
        /\ row.source_size = job.source_size
        /\ row.settings_hash = job.settings_hash

(* CacheManager.lookup: TRUE iff it returns a row                          *)
lookup(c, job) ==
    LET row == c[job.source_path]
    IN  /\ row # NoRow
        /\ ~(Abs(row.source_mtime - job.source_mtime) > MtimeTolerance)
        /\ row.source_size = job.source_size
        /\ row.settings_hash = job.settings_hash
        /\ row.output_path = job.output_path

(* A slip: the guard of store inverted.                                    *)
store_inverted(c, job, res) ==
    IF res.success
    THEN c
    ELSE [c EXCEPT ![job.source_path] =
             [output_path |-> job.output_path,
              source_mtime |-> job.source_mtime,
              source_size |-> job.source_size,
              settings_hash |-> job.settings_hash]]

(* CacheManager.store: INSERT OR REPLACE, on success only                  *)
store(c, job, res) ==
    IF ~res.success
    THEN c
    ELSE [c EXCEPT ![job.source_path] =
             [output_path |-> job.output_path,
              source_mtime |-> job.source_mtime,
              source_size |-> job.source_size,
              settings_hash |-> job.settings_hash]]

(* A slip: the cache lookup left out, the output file alone decides.       *)
_is_cached_by_file(c, out, job) ==
    /\ out[job.output_path].ex
    /\ ~out[job.output_path].empty

(* A slip: the size test of the output file left out.                      *)
_is_cached_ignoring_size(c, out, job) ==
    /\ out[job.output_path].ex
    /\ lookup(c, job)

(* ConversionPipeline._is_cached                                           *)
_is_cached(c, out, job) ==
    /\ out[job.output_path].ex
    /\ lookup(c, job)
    /\ ~out[job.output_path].empty

-----------------------------------------------------------------------------
(* models/plan.py: TrackResult, as convert_track and _run_parallel build it *)
NoResult == [job |-> 0, success |-> FALSE, error_code |-> "none"]
Success(j) == [job |-> j, success |-> TRUE, error_code |-> "none"]
Failure(j, code) == [job |-> j, success |-> FALSE, error_code |-> code]

(* pipeline.py:213-217, the TrackResult built when future.result() raises  *)
error_result(j) == [job |-> j, success |-> FALSE, error_code |-> "none"]

AllSteps == {"encode", "verify", "tag", "rename"}
Executing == {"encoding", "verify", "tag", "rename"}
Completed == {"done", "raised", "killed"}

IsRunning(j) == status[j] \in Executing
NumRunning == Cardinality({j \in JobIds : IsRunning(j)})
PoolBroken == \E j \in JobIds : status[j] = "killed"

(* A slip: the pool created without max_workers, one worker per job.      *)
max_workers_unbounded(cfg) == NumJobs

(* pipeline.py:176, ProcessPoolExecutor(max_workers=self.config.threads)   *)
max_workers(cfg) == cfg.threads

(* transcoder.py: _cleanup(temp_path)                                      *)
_cleanup(tmp, o) == [tmp EXCEPT ![o] = Absent]

(* A slip: tag writing skipped, the verified file renamed straight away.   *)
after_verify_skip_tags(ok) == IF ok THEN "rename" ELSE "done"

(* transcoder.py:78-91 / 160-173: where convert_track goes after verify    *)
after_verify(ok) == IF ok THEN "tag" ELSE "done"

(* A slip: the failure counted in both branches of the result handler.     *)
count_failed_twice(st) == [st EXCEPT !.failed_jobs = @ + 2]

(* pipeline.py:201 and 212: self.stats.failed_jobs += 1                    *)
count_failed(st) == [st EXCEPT !.failed_jobs = @ + 1]

-----------------------------------------------------------------------------
NoRun == [outcome |-> "none", had_row |-> FALSE]

(* State after construction: an empty output root, an empty cache, a plan  *)
(* from the resolver and a configuration.                                  *)
PInit ==
    /\ \E outs \in [JobIds -> Paths], acts \in [JobIds -> PlanActions] :
          /\ \A j \in JobIds : outs[j] <= j
          \* generate_output_path: the extension (.mp3 / .m4a) follows the
          \* action, so jobs sharing an output path share the action class
          /\ \A j, k \in JobIds : outs[j] = outs[k] => acts[j] = acts[k]
          /\ plan = [j \in JobIds |-> TrackJob(j, outs[j], acts[j])]
    /\ \E t \in 1..MaxThreads, ff \in BOOLEAN :
          config = [threads |-> t, fail_fast |-> ff, force |-> FALSE]
    /\ cache = [s \in JobIds |-> NoRow]
    /\ tmpFile = [o \in Paths |-> Absent]
    /\ outFile = [o \in Paths |-> Absent]
    /\ phase = "idle"
    /\ runs = 0
    /\ status = [j \in JobIds |-> "none"]
    /\ result = [j \in JobIds |-> NoResult]
    /\ collected = [j \in JobIds |-> FALSE]
    /\ results = <<>>
    /\ stats = [total_jobs |-> 0, completed_jobs |-> 0,
                failed_jobs |-> 0, cached_jobs |-> 0]
    /\ submitted = [j \in JobIds |-> 0]
    /\ attempts = [j \in JobIds |-> 0]
    /\ errorEvents = [j \in JobIds |-> 0]
    /\ steps = [j \in JobIds |-> {}]
    /\ stored = [j \in JobIds |-> FALSE]
    /\ hadRow = [j \in JobIds |-> FALSE]
    /\ prev = [j \in JobIds |-> NoRun]

RIdle ==
    /\ track = [sample_rate |-> 44100, bit_depth |-> 16]
    /\ action = "SKIP"
    /\ rjob = NoJob

(* models/plan.py: BuildPlan; NoPlan before resolve_build_plan has run     *)
NoPlan == [jobs |-> <<>>, skipped_albums |-> <<>>, validation_errors |-> <<>>,
           resolved |-> FALSE]

BIdle ==
    /\ albums = <<>>
    /\ decisions = <<>>
    /\ bplan = NoPlan

NoDry == [valid |-> FALSE, force |-> FALSE, cached_jobs |-> 0, completed_jobs |-> 0]
NoProbe == [called |-> FALSE]

QIdle ==
    /\ dry = NoDry
    /\ probe = NoProbe

(* cache/manager.py:56-60, _init_db: the table of a new database           *)
NoCall == [op |-> "none"]

TIdle ==
    /\ table = {}
    /\ present = {}
    /\ call = NoCall

(* ConversionPipeline.execute, lines 106-142 (dry_run = False): the stats, *)
(* the cached / pending partition and the submission of every pending job. *)
Execute(force) ==
    /\ phase = "idle"
    /\ runs < MaxRuns
    /\ LET cfg == [config EXCEPT !.force = force]
           hit == {j \in JobIds : ~cfg.force /\ _is_cached(cache, outFile, plan[j])}
       IN  /\ config' = cfg
           /\ status' = [j \in JobIds |-> IF j \in hit THEN "cached" ELSE "queued"]
           /\ stats' = [total_jobs |-> NumJobs, completed_jobs |-> 0,
                        failed_jobs |-> 0, cached_jobs |-> Cardinality(hit)]
           /\ results' = [i \in 1..Cardinality(hit) |->
                            Success(CHOOSE j \in hit :
                                Cardinality({k \in hit : k < j}) = i - 1)]
           /\ submitted' = [j \in JobIds |-> IF j \in hit THEN 0 ELSE 1]
    /\ phase' = "collecting"
    /\ runs' = runs + 1
    /\ attempts' = [j \in JobIds |-> 0]
    /\ result' = [j \in JobIds |-> NoResult]
    /\ collected' = [j \in JobIds |-> FALSE]
    /\ errorEvents' = [j \in JobIds |-> 0]
    /\ steps' = [j \in JobIds |-> {}]
    /\ stored' = [j \in JobIds |-> FALSE]
    /\ hadRow' = [j \in JobIds |-> cache[plan[j].source_path] # NoRow]
    /\ UNCHANGED <<plan, cache, tmpFile, outFile, prev>>
    /\ UNCHANGED <<rvars, qvars, tvars>>

-----------------------------------------------------------------------------
(* The worker side: convert_track / _handle_passthrough, one step each.    *)
WorkerFrame == UNCHANGED <<plan, config, cache, phase, runs, collected, results,
                           stats, submitted, errorEvents, stored, hadRow, prev,
                           rvars, qvars, tvars>>

TakeUp(j) == attempts' = [attempts EXCEPT ![j] = @ + 1]

Return(j, res) ==
    /\ status' = [status EXCEPT ![j] = "done"]
    /\ result' = [result EXCEPT ![j] = res]

(* A worker takes job j: transcoder.py:45-59 (mkdir, temp path, the        *)
(* encoder or copy opens and truncates the temporary file).                *)
Start(j) ==
    /\ phase \in {"collecting", "draining"}
    /\ status[j] = "queued"
    /\ ~PoolBroken
    /\ NumRunning < max_workers(config)
    /\ status' = [status EXCEPT ![j] = "encoding"]
    /\ tmpFile' = [tmpFile EXCEPT ![plan[j].output_path] = Truncate(@, j)]
    /\ TakeUp(j)
    /\ UNCHANGED <<outFile, result, steps>>
    /\ WorkerFrame

(* transcoder.py:45, mkdir raises outside the try: the future raises.      *)
StartRaises(j) ==
    /\ phase \in {"collecting", "draining"}
    /\ status[j] = "queued"
    /\ ~PoolBroken
    /\ NumRunning < max_workers(config)
    /\ status' = [status EXCEPT ![j] = "raised"]
    /\ TakeUp(j)
    /\ UNCHANGED <<tmpFile, outFile, result, steps>>
    /\ WorkerFrame

(* The encoder exits 0 (line 66 not taken), or copy2 returns (line 157).   *)
EncodeDone(j) ==
    /\ status[j] = "encoding"
    /\ LET o == plan[j].output_path
       IN  /\ tmpFile' = [tmpFile EXCEPT ![o] = CloseWriter(@, j, FALSE, FALSE)]
           /\ outFile' = [outFile EXCEPT ![o] = CloseWriter(@, j, FALSE, FALSE)]
    /\ status' = [status EXCEPT ![j] = "verify"]
    /\ steps' = [steps EXCEPT ![j] = @ \cup {"encode"}]
    /\ UNCHANGED result
    /\ UNCHANGED attempts
    /\ WorkerFrame

(* The encoder exits non-zero: lines 66-75, no _cleanup.  A failing copy   *)
(* raises: lines 204-214, _cleanup and IO_ERROR.                           *)
EncodeFails(j) ==
    /\ status[j] = "encoding"
    /\ \E z \in BOOLEAN :
         LET o == plan[j].output_path
             tmp1 == [tmpFile EXCEPT ![o] = CloseWriter(@, j, TRUE, z)]
         IN  /\ outFile' = [outFile EXCEPT ![o] = CloseWriter(@, j, TRUE, z)]
             /\ IF plan[j].action = "PASS_MP3"
                THEN /\ tmpFile' = _cleanup(tmp1, o)
                     /\ Return(j, Failure(j, "IO_ERROR"))
                ELSE /\ tmpFile' = tmp1
                     /\ Return(j, Failure(j, "ENCODE_FAIL"))
    /\ UNCHANGED steps
    /\ UNCHANGED attempts
    /\ WorkerFrame

(* subprocess.TimeoutExpired: lines 122-132, the encoder is killed.        *)
EncodeTimeout(j) ==
    /\ status[j] = "encoding"
    /\ plan[j].action # "PASS_MP3"
    /\ \E z \in BOOLEAN :
         LET o == plan[j].output_path
         IN  /\ outFile' = [outFile EXCEPT ![o] = CloseWriter(@, j, TRUE, z)]
             /\ tmpFile' = _cleanup(tmpFile, o)
    /\ Return(j, Failure(j, "ENCODE_FAIL"))
    /\ UNCHANGED steps
    /\ UNCHANGED attempts
    /\ WorkerFrame

(* verify_output(temp_path, ...): fails on a missing or empty file, and    *)
(* otherwise as the probe decides; lines 78-89 / 160-171.                  *)
Verify(j) ==
    /\ status[j] = "verify"
    /\ LET o == plan[j].output_path
       IN  \E ok \in BOOLEAN :
             /\ ok => (tmpFile[o].ex /\ ~tmpFile[o].empty)
             /\ status' = [status EXCEPT ![j] = after_verify(ok)]
             /\ IF ok
                THEN /\ steps' = [steps EXCEPT ![j] = @ \cup {"verify"}]
                     /\ UNCHANGED <<tmpFile, result>>
                ELSE /\ tmpFile' = _cleanup(tmpFile, o)
                     /\ result' = [result EXCEPT ![j] = Failure(j, "VERIFICATION_FAIL")]
                     /\ UNCHANGED steps
    /\ UNCHANGED outFile
    /\ UNCHANGED attempts
    /\ WorkerFrame

(* write_tags_and_artwork(temp_path, job): lines 92-104 / 174-186.         *)
WriteTags(j) ==
    /\ status[j] = "tag"
    /\ LET o == plan[j].output_path
       IN  \E ok \in BOOLEAN :
             /\ ok => tmpFile[o].ex
             /\ IF ok
                THEN /\ status' = [status EXCEPT ![j] = "rename"]
                     /\ steps' = [steps EXCEPT ![j] = @ \cup {"tag"}]
                     /\ UNCHANGED <<tmpFile, result>>
                ELSE /\ tmpFile' = _cleanup(tmpFile, o)
                     /\ Return(j, Failure(j, "TAG_WRITE_FAIL"))
                     /\ UNCHANGED steps
    /\ UNCHANGED outFile
    /\ UNCHANGED attempts
    /\ WorkerFrame

(* os.replace(temp_path, job.output_path) and the successful TrackResult:  *)
(* lines 107-120 / 189-202.  os.replace raises when the temporary file is  *)
(* gone (or the rename is refused): lines 133-143 / 204-214.               *)
Rename(j) ==
    /\ status[j] = "rename"
    /\ LET o == plan[j].output_path
       IN  \E ok \in BOOLEAN :
             /\ ok => tmpFile[o].ex
             /\ IF ok
                THEN /\ outFile' = [outFile EXCEPT ![o] = tmpFile[o]]
                     /\ tmpFile' = [tmpFile EXCEPT ![o] = Absent]
                     /\ steps' = [steps EXCEPT ![j] = @ \cup {"rename"}]
                     /\ Return(j, Success(j))
                ELSE /\ tmpFile' = _cleanup(tmpFile, o)
                     /\ Return(j, Failure(j, IF plan[j].action = "PASS_MP3"
                                             THEN "IO_ERROR" ELSE "ENCODE_FAIL"))
                     /\ UNCHANGED <<outFile, steps>>
    /\ UNCHANGED attempts
    /\ WorkerFrame

(* A worker process dies (killed): the pool is broken, every future that   *)
(* is not done raises BrokenProcessPool and the other workers are          *)
(* terminated where they stand.  A file a dead writer leaves is torn.      *)
Kill(j) ==
    /\ IsRunning(j)
    /\ LET dead == {k \in JobIds : status[k] = "encoding"}
           Tear(f) == IF f.ex /\ f.writers \cap dead # {}
                      THEN [f EXCEPT !.writers = @ \ dead, !.torn = TRUE]
                      ELSE f
       IN  /\ tmpFile' = [o \in Paths |-> Tear(tmpFile[o])]
           /\ outFile' = [o \in Paths |-> Tear(outFile[o])]
    /\ status' = [k \in JobIds |->
                    IF IsRunning(k) THEN "killed"
                    ELSE IF status[k] = "queued" THEN "raised"
                    ELSE status[k]]
    /\ UNCHANGED <<result, steps>>
    /\ UNCHANGED attempts
    /\ WorkerFrame

-----------------------------------------------------------------------------
(* The orchestrator side: the as_completed loop of _run_parallel.          *)
CollectFrame == UNCHANGED <<plan, config, tmpFile, outFile, runs, result,
                            submitted, attempts, steps, hadRow, prev, rvars,
                            qvars, tvars>>

Ready(j) ==
    /\ phase = "collecting"
    /\ status[j] \in Completed
    /\ ~collected[j]

(* pipeline.py:223-225: executor.shutdown(wait=False, cancel_futures=True) *)
(* and break.  The futures still pending are cancelled; the jobs already   *)
(* handed to the call queue (inCallQueue) cannot be cancelled.             *)
FailFast(inCallQueue) ==
    /\ phase' = "draining"
    /\ status' = [k \in JobIds |->
                    IF status[k] = "queued" /\ k \notin inCallQueue
                    THEN "cancelled" ELSE status[k]]

(* pipeline.py:211-225: the except branch of the result handler.           *)
HandleException(j) ==
    /\ stats' = count_failed(stats)
    /\ results' = Append(results, error_result(j))
    /\ errorEvents' = [errorEvents EXCEPT ![j] = @ + 1]
    /\ collected' = [collected EXCEPT ![j] = TRUE]
    /\ IF config.fail_fast
       THEN \E q \in SUBSET {k \in JobIds : status[k] = "queued"} : FailFast(q)
       ELSE UNCHANGED <<phase, status>>

(* pipeline.py:193-199, 208-209: a successful result is counted, stored    *)
(* and appended.                                                           *)
CollectSuccess(j) ==
    /\ Ready(j)
    /\ status[j] = "done" /\ result[j].success
    /\ stats' = [stats EXCEPT !.completed_jobs = @ + 1]
    /\ cache' = store(cache, plan[j], result[j])
    /\ stored' = [stored EXCEPT ![j] = TRUE]
    /\ results' = Append(results, result[j])
    /\ collected' = [collected EXCEPT ![j] = TRUE]
    /\ UNCHANGED <<phase, status, errorEvents>>
    /\ CollectFrame

(* pipeline.py:196-198 then 211-225: the result is counted as completed,   *)
(* cache.store raises (sqlite3 error) and the except branch runs.          *)
CollectStoreRaises(j) ==
    /\ Ready(j)
    /\ status[j] = "done" /\ result[j].success
    /\ LET st == [stats EXCEPT !.completed_jobs = @ + 1]
       IN  stats' = count_failed(st)
    /\ results' = Append(results, error_result(j))
    /\ errorEvents' = [errorEvents EXCEPT ![j] = @ + 1]
    /\ collected' = [collected EXCEPT ![j] = TRUE]
    /\ IF config.fail_fast
       THEN \E q \in SUBSET {k \in JobIds : status[k] = "queued"} : FailFast(q)
       ELSE UNCHANGED <<phase, status>>
    /\ UNCHANGED <<cache, stored>>
    /\ CollectFrame

(* pipeline.py:200-209: a failed result is counted, reported and appended. *)
CollectFailure(j) ==
    /\ Ready(j)
    /\ status[j] = "done" /\ ~result[j].success
    /\ stats' = count_failed(stats)
    /\ errorEvents' = [errorEvents EXCEPT ![j] = @ + 1]
    /\ results' = Append(results, result[j])
    /\ collected' = [collected EXCEPT ![j] = TRUE]
    /\ UNCHANGED <<phase, status, cache, stored>>
    /\ CollectFrame

(* pipeline.py:193 raises (the worker raised, or the pool is broken).      *)
CollectException(j) ==
    /\ Ready(j)
    /\ status[j] \in {"raised", "killed"}
    /\ HandleException(j)
    /\ UNCHANGED <<cache, stored>>
    /\ CollectFrame

(* How the run ended for job j, from the list execute returns.             *)
Outcome(rs, j) ==
    IF \E i \in 1..Len(rs) : rs[i].job = j /\ ~rs[i].success THEN "failed"
    ELSE IF \E i \in 1..Len(rs) : rs[i].job = j /\ rs[i].success THEN "ok"
    ELSE "none"

(* The with-block of _run_parallel is left (every future collected, or     *)
(* after the break once the pool has shut down) and execute returns:       *)
(* pipeline.py:226-227, 144-150.                                           *)
Return_execute ==
    /\ \/ /\ phase = "collecting"
          /\ \A j \in JobIds : status[j] = "cached" \/ collected[j]
       \/ /\ phase = "draining"
          /\ \A j \in JobIds : status[j] # "queued" /\ ~IsRunning(j)
    /\ phase' = "idle"
    /\ prev' = [j \in JobIds |->
                  [outcome |-> Outcome(results, j), had_row |-> hadRow[j]]]
    /\ UNCHANGED <<plan, config, cache, tmpFile, outFile, runs, status, result,
                   collected, results, stats, submitted, attempts, errorEvents,
                   steps, stored, hadRow>>
    /\ UNCHANGED <<rvars, qvars, tvars>>

Next ==
    \/ \E force \in BOOLEAN : Execute(force)
    \/ \E j \in JobIds : Start(j)
    \/ \E j \in JobIds : StartRaises(j)
    \/ \E j \in JobIds : EncodeDone(j)
    \/ \E j \in JobIds : EncodeFails(j)
    \/ \E j \in JobIds : EncodeTimeout(j)
    \/ \E j \in JobIds : Verify(j)
    \/ \E j \in JobIds : WriteTags(j)
    \/ \E j \in JobIds : Rename(j)
    \/ \E j \in JobIds : Kill(j)
    \/ \E j \in JobIds : CollectSuccess(j)
    \/ \E j \in JobIds : CollectStoreRaises(j)
    \/ \E j \in JobIds : CollectFailure(j)
    \/ \E j \in JobIds : CollectException(j)
    \/ Return_execute

Init == PInit /\ RIdle /\ BIdle /\ QIdle /\ TIdle
Spec == Init /\ [][Next]_vars

-----------------------------------------------------------------------------
(* SpecFair: one call of execute under fair scheduling.  The operating     *)
(* system lets every worker process and the collecting loop take their     *)
(* next step; an encoder that was started exits or is cut off by the       *)
(* timeout of subprocess.run (transcoder.py:59-64).  Faults (a worker      *)
(* killed, a raising mkdir) may happen but need not.                       *)
ExecuteOnce(force) ==
    /\ runs = 0
    /\ Execute(force)

NextFair ==
    \/ \E force \in BOOLEAN : ExecuteOnce(force)
    \/ \E j \in JobIds : Start(j)
    \/ \E j \in JobIds : StartRaises(j)
    \/ \E j \in JobIds : EncodeDone(j)
    \/ \E j \in JobIds : EncodeFails(j)
    \/ \E j \in JobIds : EncodeTimeout(j)
    \/ \E j \in JobIds : Verify(j)
    \/ \E j \in JobIds : WriteTags(j)
    \/ \E j \in JobIds : Rename(j)
    \/ \E j \in JobIds : Kill(j)
    \/ \E j \in JobIds : CollectSuccess(j)
    \/ \E j \in JobIds : CollectStoreRaises(j)
    \/ \E j \in JobIds : CollectFailure(j)
    \/ \E j \in JobIds : CollectException(j)
    \/ Return_execute

Fairness ==
    /\ \A j \in JobIds :
          /\ WF_vars(Start(j) \/ StartRaises(j))
          /\ WF_vars(EncodeDone(j) \/ EncodeFails(j) \/ EncodeTimeout(j))
          /\ WF_vars(Verify(j))
          /\ WF_vars(WriteTags(j))
          /\ WF_vars(Rename(j))
          /\ WF_vars(CollectSuccess(j) \/ CollectStoreRaises(j)
                        \/ CollectFailure(j) \/ CollectException(j))
    /\ WF_vars(Return_execute)

SpecFair == Init /\ [][NextFair]_vars /\ Fairness

-----------------------------------------------------------------------------
(* SpecResolve: the resolver's functions applied to the facts of a track.  *)
(* scanner/analyzer.py:79-86 yields a bit depth that is None or positive.  *)
SampleRates == {8000, 22050, 44100, 48000, 96000, 192000}
BitDepths == {None, 8, 16, 24, 32}

PIdle ==
    /\ plan = [j \in JobIds |-> TrackJob(j, j, "ALAC_PRESERVE")]
    /\ config = [threads |-> 1, fail_fast |-> FALSE, force |-> FALSE]
    /\ cache = [s \in JobIds |-> NoRow]
    /\ tmpFile = [o \in Paths |-> Absent]
    /\ outFile = [o \in Paths |-> Absent]
    /\ phase = "idle"
    /\ runs = 0
    /\ status = [j \in JobIds |-> "none"]
    /\ result = [j \in JobIds |-> NoResult]
    /\ collected = [j \in JobIds |-> FALSE]
    /\ results = <<>>
    /\ stats = [total_jobs |-> 0, completed_jobs |-> 0,
                failed_jobs |-> 0, cached_jobs |-> 0]
    /\ submitted = [j \in JobIds |-> 0]
    /\ attempts = [j \in JobIds |-> 0]
    /\ errorEvents = [j \in JobIds |-> 0]
    /\ steps = [j \in JobIds |-> {}]
    /\ stored = [j \in JobIds |-> FALSE]
    /\ hadRow = [j \in JobIds |-> FALSE]
    /\ prev = [j \in JobIds |-> NoRun]

RInit ==
    /\ track \in [sample_rate : SampleRates, bit_depth : BitDepths]
    /\ action \in Actions
    /\ rjob = NoJob

(* resolve_track_jobs on the track: resolver.py:230-312                    *)
ResolveTrack ==
    /\ rjob = NoJob
    /\ rjob' = resolve_track_job(track, action)
    /\ UNCHANGED <<track, action, albums, decisions, bplan>>
    /\ UNCHANGED <<pvars, qvars, tvars>>

InitResolve == RInit /\ PIdle /\ BIdle /\ QIdle /\ TIdle
NextResolve == ResolveTrack
SpecResolve == InitResolve /\ [][NextResolve]_vars

-----------------------------------------------------------------------------
(* SpecCache: the cached / pending partition of execute, the dry run and   *)
(* CacheManager.lookup, over cache contents and output files left by       *)
(* earlier builds and over plans re-resolved after the sources or the      *)
(* decisions changed.                                                      *)

(* validator.py:81, the bit rate an AAC decision without one resolves to   *)
default_aac_bitrate == 256

(* The plan of the earlier build: lossless sources to ALAC, others to AAC. *)
BaseAction(j) == IF j % 2 = 1 THEN "ALAC_PRESERVE" ELSE "AAC"
BaseBitrate(j) == IF BaseAction(j) = "AAC" THEN default_aac_bitrate ELSE None
BaseJob(j) == resolve_job(SourceTrack(j), j, BaseAction(j), BaseBitrate(j))

(* The jobs source j resolves to once one thing has changed since the      *)
(* earlier build: the file's mtime (by 1 ms, by 2 ms) or size, the action, *)
(* the bit rate, the sample rate or bit depth of the re-encoded source, or *)
(* the output path (album renamed).  The other inputs keep their values,   *)
(* the output path included, so that each check of lookup decides alone.   *)
Replans(j) ==
    LET t == SourceTrack(j)
        a == BaseAction(j)
        b == BaseBitrate(j)
    IN  {BaseJob(j),
         resolve_job([t EXCEPT !.mtime = @ + 1], j, a, b),
         resolve_job([t EXCEPT !.mtime = @ + 2], j, a, b),
         resolve_job([t EXCEPT !.size_bytes = @ + 1], j, a, b),
         resolve_job(t, j, IF a = "ALAC_PRESERVE" THEN "ALAC_16_44" ELSE "ALAC_PRESERVE",
                     None),
         resolve_job(t, j, a, IF a = "AAC" THEN 128 ELSE None),
         resolve_job([t EXCEPT !.sample_rate = 22050], j, a, b),
         resolve_job([t EXCEPT !.bit_depth = 8], j, a, b),
         resolve_job(t, (j % NumJobs) + 1, a, b)}

CompleteFile == [ex |-> TRUE, writers |-> {}, torn |-> FALSE, empty |-> FALSE]
EmptyFile == [ex |-> TRUE, writers |-> {}, torn |-> FALSE, empty |-> TRUE]
LeftoverFile == [ex |-> TRUE, writers |-> {}, torn |-> TRUE, empty |-> FALSE]

(* State between two invocations: rows stored by the earlier build for     *)
(* some of the sources, output files present, removed or emptied since,    *)
(* temporary files left behind by a failed encode.                         *)
CInit ==
    /\ plan = [j \in JobIds |-> BaseJob(j)]
    /\ config = [threads |-> 1, fail_fast |-> FALSE, force |-> FALSE]
    /\ \E built \in SUBSET JobIds :
          cache = [s \in JobIds |->
                     IF s \in built
                     THEN store([x \in JobIds |-> NoRow], BaseJob(s), Success(s))[s]
                     ELSE NoRow]
    /\ tmpFile \in [Paths -> {Absent, LeftoverFile}]
    /\ outFile \in [Paths -> {Absent, CompleteFile, EmptyFile}]
    /\ phase = "idle"
    /\ runs = 0
    /\ status = [j \in JobIds |-> "none"]
    /\ result = [j \in JobIds |-> NoResult]
    /\ collected = [j \in JobIds |-> FALSE]
    /\ results = <<>>
    /\ stats = [total_jobs |-> 0, completed_jobs |-> 0,
                failed_jobs |-> 0, cached_jobs |-> 0]
    /\ submitted = [j \in JobIds |-> 0]
    /\ attempts = [j \in JobIds |-> 0]
    /\ errorEvents = [j \in JobIds |-> 0]
    /\ steps = [j \in JobIds |-> {}]
    /\ stored = [j \in JobIds |-> FALSE]
    /\ hadRow = [j \in JobIds |-> FALSE]
    /\ prev = [j \in JobIds |-> NoRun]

(* The sources or the decisions change and the plan is resolved again:     *)
(* job j of the new plan differs from the old one.                         *)
Replan(j) ==
    /\ phase = "idle"
    /\ \E job \in Replans(j) :
          /\ job # plan[j]
          /\ plan' = [plan EXCEPT ![j] = job]
    /\ dry' = NoDry
    /\ probe' = NoProbe
    /\ UNCHANGED <<config, cache, tmpFile, outFile, phase, runs, status, result,
                   collected, results, stats, submitted, attempts, errorEvents,
                   steps, stored, hadRow, prev>>
    /\ UNCHANGED <<rvars, tvars>>

(* CacheManager.lookup(job) called for job j of the plan                   *)
Lookup(j) ==
    /\ phase = "idle"
    /\ probe' = [called |-> TRUE,
                 job |-> plan[j],
                 row |-> cache[plan[j].source_path],
                 hit |-> lookup(cache, plan[j])]
    /\ UNCHANGED dry
    /\ UNCHANGED pvars
    /\ UNCHANGED <<rvars, tvars>>

(* A slip: the dry run hands its projected results to the cache.           *)
dry_run_cache_stored(c, pl) ==
    [s \in JobIds |->
        IF \E j \in JobIds : pl[j].source_path = s
        THEN LET j == CHOOSE k \in JobIds : pl[k].source_path = s
             IN  store(c, pl[j], Success(j))[s]
        ELSE c[s]]

(* pipeline.py:119-120, 229-243: the cache after execute(dry_run=True),    *)
(* which calls lookup only                                                 *)
dry_run_cache(c, pl) == c

(* ConversionPipeline.execute with dry_run set: lines 106-120 and          *)
(* _dry_run, lines 229-243.  Every job yields a successful TrackResult; a  *)
(* job _is_cached accepts counts as cached, any other as completed.        *)
DryRun(force) ==
    /\ phase = "idle"
    /\ LET hit == {j \in JobIds : _is_cached(cache, outFile, plan[j])}
       IN  /\ stats' = [total_jobs |-> NumJobs,
                        completed_jobs |-> NumJobs - Cardinality(hit),
                        failed_jobs |-> 0,
                        cached_jobs |-> Cardinality(hit)]
           /\ dry' = [valid |-> TRUE, force |-> force,
                      cached_jobs |-> Cardinality(hit),
                      completed_jobs |-> NumJobs - Cardinality(hit)]
    /\ config' = [config EXCEPT !.force = force]
    /\ results' = [i \in 1..NumJobs |-> Success(i)]
    /\ cache' = dry_run_cache(cache, plan)
    /\ UNCHANGED <<plan, tmpFile, outFile, phase, runs, status, result, collected,
                   submitted, attempts, errorEvents, steps, stored, hadRow, prev>>
    /\ UNCHANGED probe
    /\ UNCHANGED <<rvars, tvars>>

InitCache == CInit /\ RIdle /\ BIdle /\ QIdle /\ TIdle

NextCache ==
    \/ \E j \in JobIds : Replan(j)
    \/ \E j \in JobIds : Lookup(j)
    \/ \E force \in BOOLEAN : DryRun(force)
    \/ \E force \in BOOLEAN : Execute(force)

SpecCache == InitCache /\ [][NextCache]_vars

-----------------------------------------------------------------------------
(* SpecPlan: resolve_build_plan over scanned albums and their decisions.   *)

NumAlbums == 2        \* albums handed to resolve_build_plan
MaxTracks == 2        \* tracks of an album

AlbumIds == 1..NumAlbums

(* planner/defaults.py:30-38                                               *)
lossless_formats == {"FLAC", "WAV", "AIFF", "ALAC", "APE", "WV", "SHN"}

(* A slip: "contains MP3" instead of "is MP3-only".                        *)
compute_default_action_any_mp3(album) ==
    IF album.source_formats = {} THEN "SKIP"
    ELSE IF "MP3" \in album.source_formats THEN "PASS_MP3"
    ELSE IF album.source_formats \cap lossless_formats # {} THEN "ALAC_PRESERVE"
    ELSE "AAC"

(* planner/defaults.py: compute_default_action; Album.is_mp3_only is       *)
(* source_formats == {MP3} (album.py:172-174)                              *)
compute_default_action(album) ==
    IF album.source_formats = {} THEN "SKIP"
    ELSE IF album.source_formats = {"MP3"} THEN "PASS_MP3"
    ELSE IF album.source_formats \cap lossless_formats # {} THEN "ALAC_PRESERVE"
    ELSE "AAC"

(* A string of a decision row.  text is the string stripped and in upper   *)
(* case; lower and padded tell whether the string as typed is in lower     *)
(* case and has surrounding blanks; given is FALSE when the row has no     *)
(* such cell (dict.get returns None).                                      *)
NoString == [given |-> FALSE, text |-> "", lower |-> FALSE, padded |-> FALSE]
Str(text, lower, padded) ==
    [given |-> TRUE, text |-> text, lower |-> lower, padded |-> padded]

(* Python's truth value of an optional string: None and "" are false       *)
TruthyStr(str) == str.given /\ ~(str.text = "" /\ ~str.padded)

(* action_str.strip().upper()                                              *)
strip_upper(str) == [str EXCEPT !.lower = FALSE, !.padded = FALSE]

(* validator.py:33-47, action_map; "none" for a key it does not hold       *)
action_map(key) ==
    IF key \in {"ALAC", "ALAC_PRESERVE", "ALAC-PRESERVE"} THEN "ALAC_PRESERVE"
    ELSE IF key \in {"ALAC_16_44", "ALAC_16/44", "ALAC-16-44"} THEN "ALAC_16_44"
    ELSE IF key = "AAC" THEN "AAC"
    ELSE IF key \in {"PASS_MP3", "PASS-MP3", "MP3", "PASSTHROUGH"} THEN "PASS_MP3"
    ELSE IF key \in {"SKIP", "NONE"} THEN "SKIP"
    ELSE "none"

(* validator.py: validate_action; "ValidationError" when it raises         *)
validate_action(action_str) ==
    IF ~TruthyStr(action_str) THEN "ValidationError"
    ELSE LET key == strip_upper(action_str).text
         IN  IF action_map(key) # "none" THEN action_map(key)
             ELSE IF key \in Actions THEN key
             ELSE "ValidationError"

(* config.py:66-68, ApplyConfig.allowed_aac_bitrates                       *)
allowed_aac_bitrates == {128, 192, 256, 320}

(* A slip: a bit rate outside the allow-list replaced by the default.      *)
validate_aac_bitrate_lenient(bitrate, allowed) ==
    IF bitrate = None \/ bitrate \notin allowed
    THEN [raised |-> FALSE, value |-> default_aac_bitrate]
    ELSE [raised |-> FALSE, value |-> bitrate]

(* validator.py: validate_aac_bitrate, for an integer or None              *)
validate_aac_bitrate(bitrate, allowed) ==
    IF bitrate = None THEN [raised |-> FALSE, value |-> default_aac_bitrate]
    ELSE IF bitrate \notin allowed THEN [raised |-> TRUE, value |-> None]
    ELSE [raised |-> FALSE, value |-> bitrate]

(* decisions.get(album_id, {}): the row of an album without one            *)
NoDecision == [skip |-> FALSE, user_action |-> NoString, aac_target_kbps |-> None]

(* A slip: an unrecognised user action reported instead of dropped.        *)
resolve_album_action_strict(album, decision) ==
    LET default_action == compute_default_action(album)
        parsed == IF TruthyStr(decision.user_action)
                  THEN validate_action(decision.user_action)
                  ELSE "None"
        user_action == parsed
        resolved_action == IF user_action # "None" THEN user_action ELSE default_action
        aac == IF resolved_action = "AAC"
               THEN validate_aac_bitrate(decision.aac_target_kbps, allowed_aac_bitrates)
               ELSE [raised |-> FALSE, value |-> None]
    IN  IF decision.skip
        THEN [raised |-> FALSE, album_id |-> album.album_id, action |-> "SKIP",
              aac_bitrate_kbps |-> None, skip |-> TRUE,
              default_action |-> default_action, user_action |-> "SKIP",
              source |-> "user_override"]
        ELSE IF aac.raised \/ parsed = "ValidationError"
        THEN [raised |-> TRUE, error_code |-> "INVALID_ENUM"]
        ELSE [raised |-> FALSE, album_id |-> album.album_id,
              action |-> resolved_action,
              aac_bitrate_kbps |-> aac.value, skip |-> FALSE,
              default_action |-> default_action, user_action |-> user_action,
              source |-> IF user_action # "None" THEN "user_override" ELSE "default"]

(* A slip: the row validated before its skip flag is looked at.            *)
resolve_album_action_validating_first(album, decision) ==
    LET default_action == compute_default_action(album)
        parsed == IF TruthyStr(decision.user_action)
                  THEN validate_action(decision.user_action)
                  ELSE "None"
        user_action == IF parsed = "ValidationError" THEN "None" ELSE parsed
        resolved_action == IF user_action # "None" THEN user_action ELSE default_action
        aac == IF resolved_action = "AAC"
               THEN validate_aac_bitrate(decision.aac_target_kbps, allowed_aac_bitrates)
               ELSE [raised |-> FALSE, value |-> None]
    IN  IF aac.raised
        THEN [raised |-> TRUE, error_code |-> "INVALID_ENUM"]
        ELSE IF decision.skip
        THEN [raised |-> FALSE, album_id |-> album.album_id, action |-> "SKIP",
              aac_bitrate_kbps |-> None, skip |-> TRUE,
              default_action |-> default_action, user_action |-> "SKIP",
              source |-> "user_override"]
        ELSE [raised |-> FALSE, album_id |-> album.album_id,
              action |-> resolved_action,
              aac_bitrate_kbps |-> aac.value, skip |-> FALSE,
              default_action |-> default_action, user_action |-> user_action,
              source |-> IF user_action # "None" THEN "user_override" ELSE "default"]

(* resolver.py: resolve_album_action; raised when validate_aac_bitrate     *)
(* raises ValidationError (line 59)                                        *)
resolve_album_action(album, decision) ==
    LET default_action == compute_default_action(album)
        \* lines 44-51
        parsed == IF TruthyStr(decision.user_action)
                  THEN validate_action(decision.user_action)
                  ELSE "None"
        user_action == IF parsed = "ValidationError" THEN "None" ELSE parsed
        \* line 54
        resolved_action == IF user_action # "None" THEN user_action ELSE default_action
        \* lines 57-62
        aac == IF resolved_action = "AAC"
               THEN validate_aac_bitrate(decision.aac_target_kbps, allowed_aac_bitrates)
               ELSE [raised |-> FALSE, value |-> None]
    IN  IF decision.skip
        THEN [raised |-> FALSE, album_id |-> album.album_id, action |-> "SKIP",
              aac_bitrate_kbps |-> None, skip |-> TRUE,
              default_action |-> default_action, user_action |-> "SKIP",
              source |-> "user_override"]
        ELSE IF aac.raised
        THEN [raised |-> TRUE, error_code |-> "INVALID_ENUM"]
        ELSE [raised |-> FALSE, album_id |-> album.album_id,
              action |-> resolved_action,
              aac_bitrate_kbps |-> aac.value, skip |-> FALSE,
              default_action |-> default_action, user_action |-> user_action,
              source |-> IF user_action # "None" THEN "user_override" ELSE "default"]

(* resolver.py: generate_conversion_tag                                    *)
generate_conversion_tag(act, source_sample_rate, source_bit_depth, target_sample_rate, target_bit_depth, aac_bitrate) ==
    IF act = "PASS_MP3" THEN <<"MP3", 0>>
    ELSE IF act = "AAC"
    THEN <<"AAC", IF Truthy(aac_bitrate) THEN aac_bitrate ELSE 256>>
    ELSE IF act \in {"ALAC_PRESERVE", "ALAC_16_44"}
    THEN LET was_downsampled == source_sample_rate > 44100 /\ target_sample_rate = 44100
             was_bit_reduced ==
                 (IF Truthy(source_bit_depth) THEN source_bit_depth ELSE 16) > 16
                 /\ target_bit_depth = 16
         IN  IF was_downsampled \/ was_bit_reduced
             THEN <<"ALAC-RedBook", 0>> ELSE <<"ALAC", 0>>
    ELSE <<"", 0>>

(* resolver.py: generate_output_path: the album's folder, the track's      *)
(* number and title, the conversion tag and the extension                  *)
generate_output_path(t, album, act, target_sample_rate, target_bit_depth, aac_bitrate) ==
    <<album.album_id, t.track_number,
      generate_conversion_tag(act, t.sample_rate, t.bit_depth,
                              target_sample_rate, target_bit_depth, aac_bitrate),
      IF act = "PASS_MP3" THEN ".mp3" ELSE ".m4a">>

(* resolver.py: resolve_track_jobs                                         *)
resolve_track_jobs(album, resolved_action) ==
    IF resolved_action.skip \/ resolved_action.action = "SKIP"
    THEN <<>>
    ELSE [i \in 1..Len(album.tracks) |->
            LET t == album.tracks[i]
                act == resolved_action.action
                params == compute_target_parameters(t.sample_rate, t.bit_depth, act)
                output_path == generate_output_path(t, album, act,
                                   params.target_sample_rate, params.target_bit_depth,
                                   resolved_action.aac_bitrate_kbps)
            IN  [album_id |-> album.album_id,
                 apply_dither |-> params.apply_dither,
                 job |-> resolve_job(t, output_path, act,
                                     resolved_action.aac_bitrate_kbps)]]

(* resolver.py: resolve_build_plan, the loop of lines 337-358 over the     *)
(* first n albums                                                          *)
RECURSIVE resolve_albums(_, _, _)
resolve_albums(albs, decs, n) ==
    IF n = 0
    THEN [jobs |-> <<>>, skipped_albums |-> <<>>, validation_errors |-> <<>>]
    ELSE LET sofar == resolve_albums(albs, decs, n - 1)
             album == albs[n]
             decision == IF album.album_id \in DOMAIN decs
                         THEN decs[album.album_id] ELSE NoDecision
             resolved == resolve_album_action(album, decision)
         IN  IF resolved.raised
             THEN [sofar EXCEPT !.validation_errors =
                       Append(@, [album_id |-> album.album_id,
                                  error_code |-> resolved.error_code])]
             ELSE IF resolved.skip
             THEN [sofar EXCEPT !.skipped_albums = Append(@, album.album_id)]
             ELSE [sofar EXCEPT !.jobs = @ \o resolve_track_jobs(album, resolved)]

(* resolver.py: resolve_build_plan                                         *)
resolve_build_plan(albs, decs) ==
    LET p == resolve_albums(albs, decs, Len(albs))
    IN  [jobs |-> p.jobs, skipped_albums |-> p.skipped_albums,
         validation_errors |-> p.validation_errors, resolved |-> TRUE]

(* The tracks the scanner finds: CD-quality and high-resolution FLAC, MP3  *)
(* and Ogg Vorbis (lossy: no bit depth).                                   *)
TrackKinds ==
    <<[format |-> "FLAC", sample_rate |-> 44100, bit_depth |-> 16],
      [format |-> "FLAC", sample_rate |-> 96000, bit_depth |-> 24],
      [format |-> "MP3", sample_rate |-> 44100, bit_depth |-> None],
      [format |-> "OGG", sample_rate |-> 48000, bit_depth |-> None]>>

(* scanner/analyzer.py:372-390: the album of id made of tracks of the      *)
(* given kinds, with its technical roll-up (models/album.py:149-152 for an *)
(* album without tracks)                                                   *)
ScannedAlbum(id, kinds) ==
    LET n == Len(kinds)
        depths == {kinds[i].bit_depth : i \in 1..n} \ {None}
    IN  [album_id |-> id,
         tracks |-> [i \in 1..n |->
                       [path |-> <<id, i>>, track_number |-> i,
                        format |-> kinds[i].format,
                        sample_rate |-> kinds[i].sample_rate,
                        bit_depth |-> kinds[i].bit_depth,
                        mtime |-> 1000 * (MaxTracks * id + i),
                        size_bytes |-> 100 * (MaxTracks * id + i)]],
         source_formats |-> {kinds[i].format : i \in 1..n},
         max_sample_rate |-> IF n = 0 THEN 44100
                             ELSE CHOOSE r \in {kinds[i].sample_rate : i \in 1..n} :
                                    \A i \in 1..n : kinds[i].sample_rate <= r,
         max_bit_depth |-> IF n = 0 THEN 16
                           ELSE IF depths = {} THEN None
                           ELSE CHOOSE d \in depths : \A e \in depths : e <= d]

(* The user-action cells tried: none, a canonical name, a lower-case       *)
(* alias, a padded alias, the word for skipping, an unknown word and a     *)
(* blank cell.                                                             *)
UserActionCells ==
    {NoString,
     Str("AAC", FALSE, FALSE),
     Str("ALAC", TRUE, FALSE),
     Str("MP3", FALSE, TRUE),
     Str("NONE", TRUE, FALSE),
     Str("FLAC", FALSE, FALSE),
     Str("", FALSE, TRUE)}

BitrateCells == {None, 128, 999}

(* The decision rows tried: every cell combination without the skip flag,  *)
(* and rows with the skip flag that are otherwise empty, ask for AAC at a  *)
(* bit rate outside the allow-list, or carry an unknown word.              *)
Decisions ==
    {[skip |-> TRUE, user_action |-> NoString, aac_target_kbps |-> None],
     [skip |-> TRUE, user_action |-> Str("AAC", FALSE, FALSE), aac_target_kbps |-> 999],
     [skip |-> TRUE, user_action |-> Str("FLAC", FALSE, FALSE), aac_target_kbps |-> 128]}
    \cup [skip : {FALSE}, user_action : UserActionCells, aac_target_kbps : BitrateCells]

(* The track lists of an album: up to MaxTracks tracks, listed by kind.    *)
KindSeqs ==
    LET idx == UNION {[1..n -> 1..Len(TrackKinds)] : n \in 0..MaxTracks}
    IN  {[i \in 1..Len(s) |-> TrackKinds[s[i]]] :
            s \in {q \in idx : \A i, j \in 1..Len(q) : i < j => q[i] <= q[j]}}

BInit ==
    /\ \E kinds \in [AlbumIds -> KindSeqs] :
          albums = [i \in AlbumIds |-> ScannedAlbum(i, kinds[i])]
    /\ decisions \in [AlbumIds -> Decisions]
    /\ bplan = NoPlan

(* resolve_build_plan(albums, decisions, config)                           *)
ResolveBuildPlan ==
    /\ ~bplan.resolved
    /\ bplan' = resolve_build_plan(albums, decisions)
    /\ UNCHANGED <<track, action, rjob, albums, decisions>>
    /\ UNCHANGED <<pvars, qvars, tvars>>

InitPlan == RIdle /\ BInit /\ PIdle /\ QIdle /\ TIdle
NextPlan == ResolveBuildPlan
SpecPlan == InitPlan /\ [][NextPlan]_vars

-----------------------------------------------------------------------------
(* SpecTable: the cache table under the CacheManager calls that write it. *)
(* The table is the set of its rows; source_path is its PRIMARY KEY.       *)

(* manager.py:146-167: the row store builds from a job (the columns lookup *)
(* reads)                                                                  *)
cache_row(job) ==
    [source_path |-> job.source_path,
     output_path |-> job.output_path,
     source_mtime |-> job.source_mtime,
     source_size |-> job.source_size,
     settings_hash |-> job.settings_hash]

(* A slip: the table created without its primary key, so that the insert  *)
(* finds no conflicting row to replace.                                    *)
insert_or_replace_without_key(tb, row) == tb \cup {row}

(* INSERT OR REPLACE INTO cache: a row with the same primary key is        *)
(* deleted, then the row is inserted                                       *)
insert_or_replace(tb, row) ==
    {r \in tb : r.source_path # row.source_path} \cup {row}

(* CacheManager.store on the table                                         *)
store_row(tb, job, res) ==
    IF ~res.success THEN tb ELSE insert_or_replace(tb, cache_row(job))

(* CacheManager.invalidate: DELETE FROM cache WHERE source_path = ?        *)
invalidate(tb, source_path) == {r \in tb : r.source_path # source_path}

(* CacheManager.invalidate_output: DELETE FROM cache WHERE output_path = ? *)
invalidate_output(tb, output_path) == {r \in tb : r.output_path # output_path}

(* CacheManager.clear: DELETE FROM cache                                   *)
clear(tb) == {}

(* CacheManager.prune_missing: the rows whose output file exists are kept  *)
prune_missing(tb, exists) == {r \in tb : r.output_path \in exists}

(* The table read as the mapping from source path to row that lookup and   *)
(* the pipeline use.                                                       *)
RowOf(tb, s) ==
    IF \E r \in tb : r.source_path = s
    THEN LET r == CHOOSE q \in tb : q.source_path = s
         IN  [output_path |-> r.output_path,
              source_mtime |-> r.source_mtime,
              source_size |-> r.source_size,
              settings_hash |-> r.settings_hash]
    ELSE NoRow

(* The jobs handed to store: the job of the earlier build, the job after   *)
(* the source was modified, and the job after the album was renamed.       *)
StoreJobs(j) ==
    LET t == SourceTrack(j)
    IN  {BaseJob(j),
         resolve_job([t EXCEPT !.mtime = @ + 2], j, BaseAction(j), BaseBitrate(j)),
         resolve_job(t, (j % NumJobs) + 1, BaseAction(j), BaseBitrate(j))}

(* cache.store(job, result), as the pipeline and the CLI call it           *)
Store(j) ==
    /\ \E job \in StoreJobs(j), res \in {Success(j), Failure(j, "ENCODE_FAIL")} :
          /\ table' = store_row(table, job, res)
          /\ call' = [op |-> "store", job |-> job, res |-> res,
                      had |-> \E r \in table : /\ r.source_path = job.source_path
                                               /\ r # cache_row(job)]
    /\ UNCHANGED present
    /\ UNCHANGED <<rvars, pvars, qvars>>

Invalidate(s) ==
    /\ table' = invalidate(table, s)
    /\ call' = [op |-> "invalidate", source_path |-> s]
    /\ UNCHANGED present
    /\ UNCHANGED <<rvars, pvars, qvars>>

InvalidateOutput(o) ==
    /\ table' = invalidate_output(table, o)
    /\ call' = [op |-> "invalidate_output", output_path |-> o]
    /\ UNCHANGED present
    /\ UNCHANGED <<rvars, pvars, qvars>>

Clear ==
    /\ table' = clear(table)
    /\ call' = [op |-> "clear"]
    /\ UNCHANGED present
    /\ UNCHANGED <<rvars, pvars, qvars>>

PruneMissing ==
    /\ table' = prune_missing(table, present)
    /\ call' = [op |-> "prune_missing"]
    /\ UNCHANGED present
    /\ UNCHANGED <<rvars, pvars, qvars>>

(* An output file is written by a build, or removed by the user.           *)
OutputWritten(o) ==
    /\ o \notin present
    /\ present' = present \cup {o}
    /\ call' = NoCall
    /\ UNCHANGED table
    /\ UNCHANGED <<rvars, pvars, qvars>>

OutputRemoved(o) ==
    /\ o \in present
    /\ present' = present \ {o}
    /\ call' = NoCall
    /\ UNCHANGED table
    /\ UNCHANGED <<rvars, pvars, qvars>>

InitTable == RIdle /\ BIdle /\ PIdle /\ QIdle /\ TIdle

NextTable ==
    \/ \E j \in JobIds : Store(j)
    \/ \E s \in JobIds : Invalidate(s)
    \/ \E o \in Paths : InvalidateOutput(o)
    \/ Clear
    \/ PruneMissing
    \/ \E o \in Paths : OutputWritten(o)
    \/ \E o \in Paths : OutputRemoved(o)

SpecTable == InitTable /\ [][NextTable]_vars

-----------------------------------------------------------------------------
(* C4  Never-upconvert: for every source sample rate, source bit depth     *)
(* (None included) and action, compute_target_parameters returns a target  *)
(* sample rate at most the source's and, when both bit depths are defined, *)
(* a target bit depth at most the source's; so does every resolved job.    *)
NeverUpconvert ==
    LET p == compute_target_parameters(track.sample_rate, track.bit_depth, action)
    IN  /\ p.target_sample_rate <= track.sample_rate
        /\ (p.target_bit_depth # None /\ track.bit_depth # None)
              => p.target_bit_depth <= track.bit_depth
        /\ rjob # NoJob =>
              /\ rjob.target_sample_rate <= rjob.source_sample_rate
              /\ (rjob.target_bit_depth # None /\ rjob.source_bit_depth # None)
                    => rjob.target_bit_depth <= rjob.source_bit_depth

(* a job resolved for a low-resolution track under the forcing action      *)
NeverUpconvertWitness ==
    /\ rjob # NoJob
    /\ rjob.action = "ALAC_16_44"
    /\ rjob.source_sample_rate < max_sample_rate
    /\ rjob.source_bit_depth # None /\ rjob.source_bit_depth < max_bit_depth
    /\ rjob.target_sample_rate = rjob.source_sample_rate
    /\ rjob.target_bit_depth = rjob.source_bit_depth

-----------------------------------------------------------------------------
(* C1  Every row of the cache points at an output path that holds a        *)
(* completely written artifact: never at a file still being written or     *)
(* left partial, for any plan (output-path collisions included) and any    *)
(* interleaving of the workers.                                            *)
CacheRowsPointAtCompleteFiles ==
    \A s \in JobIds :
        cache[s] # NoRow => IsComplete(outFile[cache[s].output_path])

(* C2  The cache store of a job happens only after that job's encode (or   *)
(* copy), verification, tag write and rename have all succeeded in the     *)
(* run: no store precedes or omits one of the four steps.                  *)
StoreFollowsAllSteps ==
    \A j \in JobIds :
        stored[j] => /\ steps[j] = AllSteps
                     /\ status[j] = "done" /\ result[j].success

StoreFollowsAllStepsWitness ==
    \E j \in JobIds :
        /\ stored[j]
        /\ cache[plan[j].source_path] # NoRow
        /\ steps[j] = AllSteps

(* C3  A worker killed between the creation of its temporary file and the  *)
(* rename leaves the job's final output path absent or complete, never     *)
(* holding a partial artifact.                                             *)
KilledWorkerLeavesNoPartialOutput ==
    \A j \in JobIds :
        status[j] = "killed" => ~IsPartial(outFile[plan[j].output_path])

(* C5  After a run in which every job succeeded, a second execute of the   *)
(* same plan without force-rebuild classifies every job as a cache hit     *)
(* and submits no job to the worker pool.                                  *)
RerunIsAllCacheHits ==
    (/\ phase # "idle"
     /\ runs >= 2
     /\ ~config.force
     /\ \A j \in JobIds : prev[j].outcome = "ok")
    => \A j \in JobIds :
          /\ status[j] = "cached"
          /\ submitted[j] = 0
          /\ attempts[j] = 0

RerunIsAllCacheHitsWitness ==
    /\ phase = "collecting"
    /\ runs = 2
    /\ ~config.force
    /\ \A j \in JobIds : prev[j].outcome = "ok" /\ status[j] = "cached"
    /\ stats.cached_jobs = NumJobs
    /\ \A j \in JobIds : cache[plan[j].source_path] # NoRow

FailureReported ==
    \E j \in JobIds : collected[j] /\ status[j] = "done" /\ ~result[j].success

FailFastStartsNoQueuedJob ==
    [][(config.fail_fast /\ FailureReported)
          => \A j \in JobIds :
                status[j] = "queued" => status'[j] \notin Executing]_vars

(* C8  Whenever a job ends in failure after its temporary file may have    *)
(* been created, the temporary file does not exist once the failed Result  *)
(* is returned.                                                            *)
FailedJobLeavesNoTempFile ==
    [][\A j \in JobIds :
          (status[j] \in Executing /\ status'[j] = "done" /\ ~result'[j].success)
             => ~tmpFile'[plan[j].output_path].ex]_vars

(* C9  Every failed Result in the list execute returns carries exactly one *)
(* of the four error kinds, whatever made the job fail.                    *)
ErrorKinds == {"ENCODE_FAIL", "VERIFICATION_FAIL", "TAG_WRITE_FAIL", "IO_ERROR"}

FailedResultsCarryErrorKind ==
    (phase = "idle" /\ runs > 0)
    => \A i \in 1..Len(results) :
          ~results[i].success => results[i].error_code \in ErrorKinds

(* C10  Within one run every pending job is submitted exactly once and     *)
(* taken up at most once (never retried); a job that fails yields exactly  *)
(* one failed Result, one increment of the failure counter and one error   *)
(* event.                                                                  *)
FailedResultsOf(j) ==
    Cardinality({i \in 1..Len(results) : results[i].job = j /\ ~results[i].success})

ResultsOf(j) ==
    Cardinality({i \in 1..Len(results) : results[i].job = j})

-----------------------------------------------------------------------------
(* A cache entry that is valid for a job: it exists and agrees with the    *)
(* job on size, on mtime within the tolerance, on the settings hash and on *)
(* the output path.                                                        *)
EntryValidFor(row, job) ==
    /\ row # NoRow
    /\ row.source_size = job.source_size
    /\ Abs(row.source_mtime - job.source_mtime) <= MtimeTolerance
    /\ row.settings_hash = job.settings_hash
    /\ row.output_path = job.output_path

(* C11  In a non-dry run a job is classified as cached, and not submitted, *)
(* if and only if force-rebuild is not requested, the cache holds a valid  *)
(* entry for it, its output file exists and that file is not empty; every  *)
(* other job is pending and is submitted to the worker pool.               *)
CachedIffEligible ==
    [][(phase = "idle" /\ phase' = "collecting")
          => \A j \in JobIds :
                LET o == plan[j].output_path
                    eligible == /\ ~config'.force
                                /\ EntryValidFor(cache[plan[j].source_path], plan[j])
                                /\ outFile[o].ex
                                /\ ~outFile[o].empty
                IN  /\ status'[j] = "cached" <=> eligible
                    /\ status'[j] = "cached" => submitted'[j] = 0
                    /\ status'[j] # "cached"
                          => (status'[j] = "queued" /\ submitted'[j] = 1)]_vars

(* one job is a hit, the other has a valid entry but an emptied output     *)
CachedIffEligibleWitness ==
    /\ phase = "collecting" /\ ~config.force
    /\ \E j, k \in JobIds :
          /\ status[j] = "cached" /\ submitted[j] = 0
          /\ status[k] = "queued" /\ submitted[k] = 1
          /\ EntryValidFor(cache[plan[k].source_path], plan[k])
          /\ outFile[plan[k].output_path] = EmptyFile

(* C12  The cached and to-build counts a dry run reports equal the sizes   *)
(* of the cached and pending partitions the real run computes from the     *)
(* same plan, cache, output files and configuration, force-rebuild         *)
(* included.                                                               *)
DryRunCountsMatchExecute ==
    [][(/\ phase = "idle" /\ phase' = "collecting"
        /\ dry.valid /\ dry.force = config'.force)
          => /\ dry.cached_jobs = Cardinality({j \in JobIds : status'[j] = "cached"})
             /\ dry.completed_jobs = Cardinality({j \in JobIds : status'[j] = "queued"})]_vars

(* C13  A dry run leaves the cache, every output file and every temporary  *)
(* file as they were and submits no job to the worker pool.                *)
DryRunChangesNothing ==
    [][(phase = "idle" /\ dry'.valid /\ dry' # dry)
          => /\ cache' = cache
             /\ outFile' = outFile
             /\ tmpFile' = tmpFile
             /\ submitted' = submitted /\ attempts' = attempts
             /\ \A j \in JobIds : status'[j] \notin {"queued"} \cup Executing]_vars

(* a dry run that found a job to build, with a left-over temporary file    *)
(* and an entry in the cache                                               *)
DryRunChangesNothingWitness ==
    /\ phase = "idle" /\ dry.valid
    /\ dry.completed_jobs > 0 /\ dry.cached_jobs > 0
    /\ \E o \in Paths : tmpFile[o].ex
    /\ \E s \in JobIds : cache[s] = NoRow

(* C14  lookup(job) returns an entry only if the entry stored for the      *)
(* job's source path agrees with the job on byte size, on mtime within the *)
(* tolerance, on the settings hash and on the output path; when one of     *)
(* them differs or there is no entry, lookup misses.                       *)
LookupHitsExactlyOnValidEntry ==
    probe.called => (probe.hit <=> EntryValidFor(probe.row, probe.job))

(* a lookup that misses on the output path alone                           *)
LookupHitsExactlyOnValidEntryWitness ==
    /\ probe.called /\ ~probe.hit
    /\ probe.row # NoRow
    /\ probe.row.source_size = probe.job.source_size
    /\ probe.row.source_mtime = probe.job.source_mtime
    /\ probe.row.settings_hash = probe.job.settings_hash
    /\ probe.row.output_path # probe.job.output_path

(* C15  With entries stored for several jobs of distinct sources, a change *)
(* of one source's mtime or size, or of one settings-hash input of one     *)
(* job, makes the lookup for that job miss while the lookup for every      *)
(* other stored job still hits.                                            *)
HashInputs(job) ==
    <<job.source_mtime, job.source_size, job.action, job.aac_bitrate_kbps,
      job.target_sample_rate, job.target_bit_depth>>

ChangeInvalidatesOnlyItsEntry ==
    [][\A j \in JobIds :
          (/\ phase = "idle"
           /\ HashInputs(plan'[j]) # HashInputs(plan[j])
           /\ \A k \in JobIds \ {j} : plan'[k] = plan[k]
           /\ lookup(cache, plan[j]))
             => /\ ~lookup(cache', plan'[j])
                /\ \A k \in JobIds \ {j} :
                      lookup(cache, plan[k]) => lookup(cache', plan'[k])]_vars

(* the target bit depth of one job changed, nothing else: its lookup       *)
(* misses, the other job's still hits                                      *)
ChangeInvalidatesOnlyItsEntryWitness ==
    \E j, k \in JobIds :
        /\ j # k
        /\ cache[plan[j].source_path] # NoRow
        /\ plan[j].target_bit_depth # BaseJob(j).target_bit_depth
        /\ plan[j].source_mtime = BaseJob(j).source_mtime
        /\ plan[j].source_size = BaseJob(j).source_size
        /\ plan[j].output_path = BaseJob(j).output_path
        /\ ~lookup(cache, plan[j])
        /\ lookup(cache, plan[k])
        /\ probe.called /\ probe.job = plan[k] /\ probe.hit

-----------------------------------------------------------------------------
(* The album at position i and its decision row.                           *)
DecisionOf(i) == decisions[albums[i].album_id]

RemoveAt(seq, i) == SubSeq(seq, 1, i - 1) \o SubSeq(seq, i + 1, Len(seq))

ErrorsOf(p, id) ==
    {e \in 1..Len(p.validation_errors) : p.validation_errors[e].album_id = id}

JobsOf(p, id) == {k \in 1..Len(p.jobs) : p.jobs[k].album_id = id}

(* the group at position i resolves to AAC and its bit-rate override is    *)
(* not in the allow-list                                                   *)
BadBitrate(i) ==
    LET d == DecisionOf(i)
        ua == IF TruthyStr(d.user_action) THEN validate_action(d.user_action)
              ELSE "ValidationError"
    IN  /\ ~d.skip
        /\ (IF ua # "ValidationError" THEN ua ELSE compute_default_action(albums[i])) = "AAC"
        /\ d.aac_target_kbps # None
        /\ d.aac_target_kbps \notin allowed_aac_bitrates

(* C16  When a group resolves to the lossy-encode action with a bit-rate   *)
(* override outside the allow-list, resolve_build_plan records one         *)
(* validation error carrying the group's id, emits no job for the group,   *)
(* and emits for the other groups the jobs, in the order, it emits when    *)
(* the offending group is removed from the input.                          *)
InvalidBitrateIsIsolated ==
    bplan.resolved =>
        \A i \in 1..Len(albums) :
            BadBitrate(i) =>
                /\ Cardinality(ErrorsOf(bplan, albums[i].album_id)) = 1
                /\ JobsOf(bplan, albums[i].album_id) = {}
                /\ bplan.jobs = resolve_build_plan(RemoveAt(albums, i), decisions).jobs

(* the first album is rejected for its bit rate, the second yields jobs    *)
InvalidBitrateIsIsolatedWitness ==
    /\ bplan.resolved
    /\ BadBitrate(1) /\ ~BadBitrate(2)
    /\ Len(albums[1].tracks) > 0
    /\ bplan.validation_errors = <<[album_id |-> albums[1].album_id,
                                    error_code |-> "INVALID_ENUM"]>>
    /\ Len(bplan.jobs) = MaxTracks
    /\ JobsOf(bplan, albums[2].album_id) = 1..MaxTracks

(* the decision of the group at position i carries a user-action string    *)
(* that is not recognised, and skip is not set                             *)
Unrecognised(i) ==
    LET d == DecisionOf(i)
    IN  /\ ~d.skip
        /\ TruthyStr(d.user_action)
        /\ validate_action(d.user_action) = "ValidationError"

default_sample_rate_ceiling == 48000

HiResLosslessDefaultsToDownconvert ==
    bplan.resolved =>
        \A i \in 1..Len(albums) :
            LET a == albums[i]
                expected == IF a.max_sample_rate > default_sample_rate_ceiling
                               \/ (a.max_bit_depth # None /\ a.max_bit_depth > 16)
                            THEN "ALAC_16_44" ELSE "ALAC_PRESERVE"
            IN  (a.source_formats # {} /\ a.source_formats \subseteq lossless_formats)
                   => /\ compute_default_action(a) = expected
                      /\ DecisionOf(i) = NoDecision
                            => \A k \in JobsOf(bplan, a.album_id) :
                                  bplan.jobs[k].job.action = expected

(* C20  With no ceiling given, compute_target_parameters leaves a source   *)
(* rate of at most 48000 Hz unchanged and sets a higher one to 48000 for   *)
(* the lossless and the lossy-encode actions.                              *)
CeilingDefaultsTo48k ==
    (rjob # NoJob /\ action \in {"ALAC_PRESERVE", "ALAC_16_44", "AAC"}) =>
        /\ compute_target_parameters(track.sample_rate, track.bit_depth,
                                     action).target_sample_rate
              = Min(track.sample_rate, default_sample_rate_ceiling)
        /\ rjob.target_sample_rate
              = Min(rjob.source_sample_rate, default_sample_rate_ceiling)

-----------------------------------------------------------------------------
(* C21  The dither flag compute_target_parameters returns is true exactly  *)
(* when the target bit depth is lower than a defined source bit depth: it  *)
(* is false when only the sample rate is reduced, when nothing is reduced, *)
(* and for the PASS and lossy-encode actions.  The resolved job carries    *)
(* the same flag, and the lossless encoder command dithers exactly then.   *)
DitherIffBitDepthReduced ==
    LET p == compute_target_parameters(track.sample_rate, track.bit_depth, action)
    IN  /\ p.apply_dither <=> (/\ track.bit_depth # None
                                /\ p.target_bit_depth # None
                                /\ p.target_bit_depth < track.bit_depth)
        /\ action \in {"PASS_MP3", "AAC"} => ~p.apply_dither
        /\ rjob # NoJob =>
              /\ rjob.apply_dither <=> (/\ rjob.source_bit_depth # None
                                         /\ rjob.target_bit_depth # None
                                         /\ rjob.target_bit_depth
                                               < rjob.source_bit_depth)
              /\ rjob.target_codec = "alac"
                    => (needs_dither(rjob) <=> rjob.apply_dither)

(* a lossless job whose sample rate alone is reduced, resolved undithered  *)
DitherIffBitDepthReducedWitness ==
    /\ rjob # NoJob
    /\ rjob.target_codec = "alac"
    /\ rjob.target_sample_rate < rjob.source_sample_rate
    /\ rjob.source_bit_depth # None
    /\ rjob.target_bit_depth = rjob.source_bit_depth
    /\ ~rjob.apply_dither

-----------------------------------------------------------------------------
(* C22  Whenever a decision's skip flag is set, the album resolves to SKIP *)
(* with provenance user_override whatever its user-action string and bit   *)
(* rate are (no validation error, even for a bit rate outside the          *)
(* allow-list), no job is emitted for it, and its id is listed among the   *)
(* plan's skipped ids.                                                     *)
SkipFlagWins ==
    bplan.resolved =>
        \A i \in 1..Len(albums) :
            LET id == albums[i].album_id
                ra == resolve_album_action(albums[i], DecisionOf(i))
            IN  DecisionOf(i).skip =>
                  /\ ~ra.raised
                  /\ ra.action = "SKIP" /\ ra.skip
                  /\ ra.source = "user_override"
                  /\ ErrorsOf(bplan, id) = {}
                  /\ JobsOf(bplan, id) = {}
                  /\ \E k \in 1..Len(bplan.skipped_albums) :
                         bplan.skipped_albums[k] = id

(* a plan resolved for an album with tracks whose row has the skip flag,   *)
(* asks for AAC and gives a bit rate outside the allow-list                *)
SkipFlagWinsWitness ==
    /\ bplan.resolved
    /\ \E i \in 1..Len(albums) :
          /\ Len(albums[i].tracks) > 0
          /\ DecisionOf(i).skip
          /\ DecisionOf(i).user_action.text = "AAC"
          /\ DecisionOf(i).aac_target_kbps \notin allowed_aac_bitrates
          /\ \E k \in 1..Len(bplan.skipped_albums) :
                 bplan.skipped_albums[k] = albums[i].album_id

-----------------------------------------------------------------------------
(* C29  Every album with at least one track is accounted for in exactly    *)
(* one part of the plan resolve_build_plan returns: it has at least one    *)
(* job, or its id is among the skipped ids, or it has a validation error.  *)
(* In particular an album whose resolved action is SKIP without the skip   *)
(* flag is listed among the skipped ids.                                   *)
InSkipped(p, id) == \E k \in 1..Len(p.skipped_albums) : p.skipped_albums[k] = id

PartsOf(p, id) ==
    {part \in {"jobs", "skipped", "error"} :
        \/ part = "jobs" /\ JobsOf(p, id) # {}
        \/ part = "skipped" /\ InSkipped(p, id)
        \/ part = "error" /\ ErrorsOf(p, id) # {}}

EveryAlbumAccountedFor ==
    bplan.resolved =>
        \A i \in 1..Len(albums) :
            LET id == albums[i].album_id
                ra == resolve_album_action(albums[i], DecisionOf(i))
            IN  Len(albums[i].tracks) > 0 =>
                  /\ Cardinality(PartsOf(bplan, id)) = 1
                  /\ (~ra.raised /\ ra.action = "SKIP") => InSkipped(bplan, id)

-----------------------------------------------------------------------------
(* C23  At no point of a run do two jobs that are executing concurrently   *)
(* write to the same temporary path: the temporary file of each running    *)
(* worker is written by that worker only, for every plan (the temporary    *)
(* path is the output path with ".tmp" put before its suffix).             *)
TemporaryFileHasOneWriter ==
    /\ \A o \in Paths : Cardinality(tmpFile[o].writers) <= 1
    /\ \A j \in JobIds :
          IsRunning(j) => tmpFile[plan[j].output_path].writers \subseteq {j}

-----------------------------------------------------------------------------
(* C24  In every execution of a job, verification of the temporary file    *)
(* precedes tag writing, tag writing precedes the rename, the rename       *)
(* happens at most once and only after verification and tag writing both   *)
(* succeeded, a successful Result is returned only after the rename, and   *)
(* the file at a job's final output path is modified by a rename only: a   *)
(* job that fails at any stage never modifies it.                          *)
StagesInOrder ==
    [][\A j \in JobIds :
          LET o == plan[j].output_path
              Gains(step) == step \in steps'[j] /\ step \notin steps[j]
          IN  /\ Gains("verify") => "encode" \in steps[j]
              /\ Gains("tag") => "verify" \in steps[j]
              /\ Gains("rename") => {"verify", "tag"} \subseteq steps[j]
              /\ ("rename" \in steps[j] /\ runs' = runs)
                    => status'[j] \notin Executing
              /\ (result'[j].success /\ ~result[j].success)
                    => "rename" \in steps'[j]
              /\ outFile'[o] # outFile[o]
                    => \E k \in JobIds :
                          /\ plan[k].output_path = o
                          /\ "rename" \in steps'[k] /\ "rename" \notin steps[k]
                          /\ result'[k].success]_vars

-----------------------------------------------------------------------------
(* C25  If between two runs a source's modification time changes by no     *)
(* more than the lookup tolerance while its size, action, bit rate, target *)
(* parameters, tool version and output path are unchanged, the job         *)
(* resolved again for that source is still a cache hit against the entry   *)
(* the first run stored.                                                   *)
MtimeWithinToleranceStillHits ==
    [][\A j \in JobIds :
          (/\ phase = "idle"
           /\ lookup(cache, plan[j])
           /\ cache' = cache
           /\ plan'[j].source_path = plan[j].source_path
           /\ Abs(plan'[j].source_mtime - plan[j].source_mtime) <= MtimeTolerance
           /\ plan'[j].source_size = plan[j].source_size
           /\ plan'[j].action = plan[j].action
           /\ plan'[j].aac_bitrate_kbps = plan[j].aac_bitrate_kbps
           /\ plan'[j].target_sample_rate = plan[j].target_sample_rate
           /\ plan'[j].target_bit_depth = plan[j].target_bit_depth
           /\ plan'[j].output_path = plan[j].output_path)
             => lookup(cache', plan'[j])]_vars

-----------------------------------------------------------------------------
(* C26  After any sequence of store, invalidate, invalidate_output, clear  *)
(* and prune_missing calls the cache holds at most one entry per source    *)
(* path, and every entry comes from a store call with a successful Result: *)
(* store with a failed Result changes nothing, and store with a successful *)
(* Result replaces the entry of the job's source path with the job's       *)
(* fingerprint, settings hash and output path and leaves the entries of    *)
(* all other source paths unchanged.                                       *)
CacheTableWellFormed ==
    [][LET stores == call'.op = "store"
           EntriesOf(tb, s) == {r \in tb : r.source_path = s}
       IN  /\ \A s \in JobIds : Cardinality(EntriesOf(table', s)) <= 1
           /\ \A r \in table' \ table :
                 /\ stores /\ call'.res.success
                 /\ r = cache_row(call'.job)
           /\ (stores /\ ~call'.res.success) => table' = table
           /\ (stores /\ call'.res.success) =>
                 LET job == call'.job
                 IN  /\ EntriesOf(table', job.source_path) = {cache_row(job)}
                     /\ \A s \in JobIds \ {job.source_path} :
                           EntriesOf(table', s) = EntriesOf(table, s)
                     /\ \A s \in JobIds :
                           RowOf(table', s)
                             = store([x \in JobIds |-> RowOf(table, x)],
                                     job, call'.res)[s]]_vars

(* a successful store has replaced the differing entry of its source while *)
(* the other source keeps its entry                                        *)
CacheTableWellFormedWitness ==
    /\ call.op = "store"
    /\ call.res.success
    /\ call.had
    /\ cache_row(call.job) \in table
    /\ Cardinality(table) = NumJobs

-----------------------------------------------------------------------------
(* C27  At every moment of a run, the number of jobs being executed by     *)
(* workers is at most the configured concurrency, config.threads.          *)
RunningWithinThreads ==
    Cardinality({j \in JobIds : status[j] \in Executing}) <= config.threads

(* every worker of a pool smaller than the plan is busy, a job waits       *)
RunningWithinThreadsWitness ==
    /\ config.threads < NumJobs
    /\ Cardinality({j \in JobIds : status[j] \in Executing}) = config.threads
    /\ \E j \in JobIds : status[j] = "queued"

-----------------------------------------------------------------------------
(* C28  In every reachable state of execute each job of the plan is        *)
(* counted in at most one of the completed, failed and cached counters:    *)
(* completed + failed + cached never exceeds total and in-progress         *)
(* (total - completed - failed - cached) is never negative, also when the  *)
(* cache store raises while a result is being processed.                   *)
in_progress(st) ==
    st.total_jobs - st.completed_jobs - st.failed_jobs - st.cached_jobs

EachJobCountedOnce ==
    /\ stats.completed_jobs + stats.failed_jobs + stats.cached_jobs
          <= stats.total_jobs
    /\ in_progress(stats) >= 0
    /\ stats.completed_jobs + stats.failed_jobs
          <= Cardinality({j \in JobIds : collected[j]})

-----------------------------------------------------------------------------
(* C30  Under fair scheduling of the workers, with every encoder exiting   *)
(* or being cut off by the timeout, execute without fail-fast eventually   *)
(* returns, and when it returns every job of the plan has exactly one      *)
(* Result in the returned list and in-progress is zero.                    *)
ExecuteReturnsComplete ==
    /\ (phase # "idle" /\ ~config.fail_fast) ~> (phase = "idle")
    /\ [][(phase # "idle" /\ phase' = "idle" /\ ~config.fail_fast)
            => /\ \A j \in JobIds :
                     Cardinality({i \in 1..Len(results') : results'[i].job = j}) = 1
               /\ in_progress(stats') = 0]_vars

=============================================================================
